---- MODULE Spec2Model ----
(***************************************************************************)
(* A model of the lock-free frame allocator of src/tsl/frame_alloc.c:      *)
(* the descriptor (struct frame_alloc), the double-word head record        *)
(* {free, counter}, the free-list nodes overlaid on free frames, the       *)
(* construction path frame_alloc_new / _frame_alloc_init, and the          *)
(* frame_alloc / frame_free operations as sequences of atomic steps, one   *)
(* per access to shared memory, run by several caller threads.             *)
(***************************************************************************)
EXTENDS Integers, Sequences, FiniteSets, TLC

(***************************************************************************)
(* Bounds of the model.                                                    *)
(***************************************************************************)
\* number of caller threads
NrThreads == 2
\* largest nr_frames an allocator is constructed with
MaxFrames == 2
\* number of frame_alloc / frame_free calls started in one behaviour of
\* several threads
MaxOps == 4
\* number of frame_alloc / frame_free calls started in one behaviour of a
\* single thread
MaxSeqOps == 6
\* width of size_t, scaled down
WordBits == 9
\* width of counter_t, scaled down (never wraps within MaxOps updates)
CounterBits == 16
\* the frame_bytes argument the concurrent specifications construct with
FrameBytesArg == 1

(***************************************************************************)
(* Program constants.                                                      *)
(***************************************************************************)
SYS_CACHE_LINE_LENGTH == 64
NULL == 0
MAP_FAILED == -1
\* the address mmap returns for the backing region
RgnBase == 64
\* the address TZAALLOC returns for the descriptor
FaAddr == 1
\* a pointer value that is no frame of the region and not NULL
Junk == 3
\* the first word of a frame whose holder has written its own bytes into it:
\* a value the allocator knows nothing about
Dirty == 2

WordMod == 2 ^ WordBits
CounterMod == 2 ^ CounterBits

Threads == 1 .. NrThreads

\* sizeof(struct frame_alloc_free): one pointer, padded to its cache-line
\* alignment (CAL_CACHE_ALIGNED)
NodeSize == SYS_CACHE_LINE_LENGTH

RECURSIVE BitAnd(_, _)
\* the C operator & on unsigned words
BitAnd(a, b) ==
    IF a = 0 \/ b = 0 THEN 0
    ELSE 2 * BitAnd(a \div 2, b \div 2)
         + (IF a % 2 = 1 /\ b % 2 = 1 THEN 1 ELSE 0)

\* the C operator ~ on a size_t word
BitNot(a) == (WordMod - 1) - a

\* frame_alloc_new's rounding as the statement on line 188 computes it
RoundUpCacheLine(fb) ==
    BitAnd((fb + SYS_CACHE_LINE_LENGTH - 1) % WordMod,
           BitNot(SYS_CACHE_LINE_LENGTH - 1))

\* the frame size frame_alloc_new settles on (lines 188, 195-197)
RoundFrameBytes(fb) ==
    IF RoundUpCacheLine(fb) < NodeSize THEN NodeSize ELSE RoundUpCacheLine(fb)

\* rgn_size = nr_frames * frame_bytes in size_t arithmetic (line 204)
RegionSize(n, fs) == (n * fs) % WordMod

\* the addresses _frame_alloc_init's loop visits: rgn, rgn + frame_size, ...
\* while below rgn + rgn_len
FrameAddrs(r, len, fs) ==
    { r + i * fs : i \in { j \in 0 .. (len \div fs) : r + j * fs < r + len } }

RECURSIVE InitWalk(_, _, _, _, _)
\* _frame_alloc_init's loop from ptr on: each frame is prepended to the list
\* whose top is free; the result is the final hd.free and the next fields
InitWalk(ptr, lim, fs, free, nxt) ==
    IF ptr < lim
    THEN InitWalk(ptr + fs, lim, fs, ptr, [nxt EXCEPT ![ptr] = free])
    ELSE [free |-> free, next |-> nxt]

\* _frame_alloc_init on a zero-filled region and a zeroed descriptor
FrameAllocInit(r, len, fs) ==
    InitWalk(r, r + len, fs, NULL, [a \in FrameAddrs(r, len, fs) |-> NULL])

\* a head record
HeadRec(f, c) == [free |-> f, counter |-> c]

NoHead == HeadRec(NULL, 0)

VARIABLES
    \* struct frame_alloc
    hd, rgn, rgn_len, frame_size, nr_frames, nr_frees, nr_allocs,
    \* the first word (the next field) of every frame of the region
    next,
    \* per thread: position, the locals of _frame_alloc_pop_free and
    \* _frame_alloc_push_free, the caller's handle *pframe, the frames the
    \* caller holds and is not passing to a call, the last result
    pc, cur, head, new, sn, pframe, held, ret,
    \* the process has been killed by a memory fault
    crashed,
    \* history: completed calls by outcome, and the last completed call
    calls_ok, calls_nomem, calls_free, last,
    \* history: number of successful head updates, and that number when each
    \* thread last observed the head
    gen, obs,
    \* frame_alloc_new: position, arguments, locals, outputs
    npc, arg_bytes, arg_frames, frame_bytes, fa, map_rgn, rgn_size, nret,
    palloc,
    \* the heap and the address space: descriptor allocated, region mapped
    fa_live, mapped,
    \* history: which acquisition of frame_alloc_new failed, if any
    new_fail,
    \* the number of calls the callers may start
    quota,
    \* frame_alloc_get_frame_size's output
    pframe_bytes,
    \* frame_alloc_get_counts's outputs *nr_frees and *nr_allocs
    out_counts

alloc_vars == <<hd, rgn, rgn_len, frame_size, nr_frames, nr_frees, nr_allocs>>
thread_vars == <<pc, cur, head, new, sn, pframe, held, ret>>
hist_vars == <<calls_ok, calls_nomem, calls_free, last, gen, obs>>
new_vars == <<npc, arg_bytes, arg_frames, frame_bytes, fa, map_rgn, rgn_size,
              nret, palloc, fa_live, mapped, new_fail, quota>>
query_vars == <<pframe_bytes, out_counts>>
vars == <<alloc_vars, next, thread_vars, crashed, hist_vars, new_vars,
          query_vars>>

\* the frames of the region
Frames == DOMAIN next

\* the pointer values a read of a word can yield
Ptr == Frames \cup {NULL, Junk}

\* what a read of frame f's next field can yield: the pointer stored there,
\* or anything when the holder's own bytes are there
ReadNext(f) == IF next[f] = Dirty THEN Ptr ELSE {next[f]}

NoCall == [op |-> "none", t |-> 0, frame |-> NULL]

ThreadsIdle ==
    /\ pc = [t \in Threads |-> "idle"]
    /\ cur = [t \in Threads |-> NoHead]
    /\ head = [t \in Threads |-> NoHead]
    /\ new = [t \in Threads |-> NoHead]
    /\ sn = [t \in Threads |-> NULL]
    /\ pframe = [t \in Threads |-> NULL]
    /\ held = [t \in Threads |-> {}]
    /\ ret = [t \in Threads |-> "A_OK"]
    /\ crashed = FALSE
    /\ calls_ok = 0 /\ calls_nomem = 0 /\ calls_free = 0
    /\ last = NoCall
    /\ gen = 0
    /\ obs = [t \in Threads |-> 0]
    /\ pframe_bytes = 0
    /\ out_counts = [nr_frees |-> 0, nr_allocs |-> 0]

\* whether mmap can succeed: a mapping of len > 0 bytes at RgnBase fits the
\* address space
Mappable(len) == len > 0 /\ RgnBase + len <= WordMod

\* a frame_bytes argument of more than half the range of size_t: the size of
\* a region of two such frames wraps around
BigFrameBytes == WordMod \div 2 + 1

\* the frame_bytes arguments the allocators of the callers' specifications
\* are constructed with
FrameBytesArgs == {FrameBytesArg, BigFrameBytes}

\* the state frame_alloc_new(b, n) leaves when it succeeds
Constructed(b, n) ==
    LET fs == RoundFrameBytes(b)
        len == RegionSize(n, fs)
        lst == FrameAllocInit(RgnBase, len, fs)
    IN  /\ hd = HeadRec(lst.free, 0)
        /\ next = lst.next
        /\ rgn = RgnBase /\ rgn_len = len /\ frame_size = fs /\ nr_frames = n
        /\ nr_frees = 0 /\ nr_allocs = 0
        /\ npc = "returned" /\ arg_bytes = b /\ arg_frames = n
        /\ frame_bytes = fs /\ fa = FaAddr /\ map_rgn = RgnBase
        /\ rgn_size = len /\ nret = "A_OK" /\ palloc = FaAddr
        /\ fa_live = TRUE /\ mapped = TRUE /\ new_fail = "none"

\* after construction, before any thread has called
Init ==
    /\ \E b \in FrameBytesArgs, n \in 1 .. MaxFrames :
          /\ Mappable(RegionSize(n, RoundFrameBytes(b)))
          /\ Constructed(b, n)
    /\ ThreadsIdle
    /\ quota = MaxOps

(***************************************************************************)
(* The callers.                                                            *)
(***************************************************************************)
CallsStarted ==
    calls_ok + calls_nomem + calls_free
    + Cardinality({t \in Threads : pc[t] # "idle"})

\* the caller writes into a frame it holds: the bytes are its own
CallerWrite(t) ==
    /\ ~crashed /\ pc[t] = "idle"
    /\ \E f \in held[t] :
          /\ next[f] # Dirty
          /\ next' = [next EXCEPT ![f] = Dirty]
    /\ UNCHANGED <<alloc_vars, thread_vars, crashed, hist_vars, new_vars,
                   query_vars>>

(***************************************************************************)
(* frame_alloc and _frame_alloc_pop_free.                                  *)
(***************************************************************************)
\* frame_alloc entered: *pframe = NULL (line 264)
AllocCall(t) ==
    /\ ~crashed /\ pc[t] = "idle" /\ CallsStarted < quota
    /\ pc' = [pc EXCEPT ![t] = "pop_load"]
    /\ pframe' = [pframe EXCEPT ![t] = NULL]
    /\ UNCHANGED <<alloc_vars, next, cur, head, new, sn, held, ret, crashed,
                   hist_vars, new_vars, query_vars>>

\* mutant: on an empty list the head's counter is advanced before the
\* return
PopLoad_Touch(t) ==
    /\ ~crashed /\ pc[t] = "pop_load"
    /\ obs' = [obs EXCEPT ![t] = gen]
    /\ IF hd.free = NULL
       THEN /\ pc' = [pc EXCEPT ![t] = "idle"]
            /\ ret' = [ret EXCEPT ![t] = "A_E_NOMEM"]
            /\ calls_nomem' = calls_nomem + 1
            /\ last' = [op |-> "alloc_nomem", t |-> t, frame |-> NULL]
            /\ hd' = [hd EXCEPT !.counter = (@ + 1) % CounterMod]
            /\ UNCHANGED cur
       ELSE /\ pc' = [pc EXCEPT ![t] = "pop_read"]
            /\ cur' = [cur EXCEPT ![t] = hd]
            /\ UNCHANGED <<ret, calls_nomem, last, hd>>
    /\ UNCHANGED <<rgn, rgn_len, frame_size, nr_frames, nr_frees, nr_allocs,
                   next, head, new, sn, pframe, held, crashed, calls_ok,
                   calls_free, gen, new_vars, query_vars>>

\* ck_pr_load_ptr_2 and the test for the empty list (lines 105-111); on an
\* empty list the call returns A_E_NOMEM
PopLoad(t) ==
    /\ ~crashed /\ pc[t] = "pop_load"
    /\ obs' = [obs EXCEPT ![t] = gen]
    /\ IF hd.free = NULL
       THEN /\ pc' = [pc EXCEPT ![t] = "idle"]
            /\ ret' = [ret EXCEPT ![t] = "A_E_NOMEM"]
            /\ calls_nomem' = calls_nomem + 1
            /\ last' = [op |-> "alloc_nomem", t |-> t, frame |-> NULL]
            /\ UNCHANGED cur
       ELSE /\ pc' = [pc EXCEPT ![t] = "pop_read"]
            /\ cur' = [cur EXCEPT ![t] = hd]
            /\ UNCHANGED <<ret, calls_nomem, last>>
    /\ UNCHANGED <<alloc_vars, next, head, new, sn, pframe, held, crashed,
                   calls_ok, calls_free, gen, new_vars, query_vars>>

\* the loop body (lines 114-116): the candidate head is computed from the
\* next field of cur.free; when cur.free is no frame the read faults
PopRead(t) ==
    /\ ~crashed /\ pc[t] = "pop_read"
    /\ IF cur[t].free \in Frames
       THEN /\ sn' = [sn EXCEPT ![t] = cur[t].free]
            /\ \E v \in ReadNext(cur[t].free) :
                  new' = [new EXCEPT ![t] =
                            HeadRec(v, (cur[t].counter + 1) % CounterMod)]
            /\ pc' = [pc EXCEPT ![t] = "pop_cas"]
            /\ UNCHANGED crashed
       ELSE /\ crashed' = TRUE
            /\ UNCHANGED <<sn, new, pc>>
    /\ UNCHANGED <<alloc_vars, next, cur, head, pframe, held, ret, hist_vars,
                   new_vars, query_vars>>

\* mutant: a single-word compare-and-swap on hd.free, no generation counter
PopCas_PtrOnly(t) ==
    /\ ~crashed /\ pc[t] = "pop_cas"
    /\ IF hd.free = cur[t].free
       THEN /\ hd' = new[t]
            /\ gen' = gen + 1
            /\ pc' = [pc EXCEPT ![t] = "pop_count"]
            /\ UNCHANGED <<cur, obs>>
       ELSE /\ cur' = [cur EXCEPT ![t] = hd]
            /\ obs' = [obs EXCEPT ![t] = gen]
            /\ pc' = [pc EXCEPT ![t] = "pop_read"]
            /\ UNCHANGED <<hd, gen>>
    /\ UNCHANGED <<rgn, rgn_len, frame_size, nr_frames, nr_frees, nr_allocs,
                   next, head, new, sn, pframe, held, ret, crashed, calls_ok,
                   calls_nomem, calls_free, last, new_vars, query_vars>>

\* mutant: the new head is stored without comparing
PopCas_Blind(t) ==
    /\ ~crashed /\ pc[t] = "pop_cas"
    /\ hd' = new[t]
    /\ gen' = gen + 1
    /\ pc' = [pc EXCEPT ![t] = "pop_count"]
    /\ UNCHANGED <<rgn, rgn_len, frame_size, nr_frames, nr_frees, nr_allocs,
                   next, cur, obs, head, new, sn, pframe, held, ret, crashed,
                   calls_ok, calls_nomem, calls_free, last, new_vars,
                   query_vars>>

\* mutant: a weak compare-and-swap, which may fail although hd equals cur
PopCas_Spurious(t) ==
    /\ ~crashed /\ pc[t] = "pop_cas"
    /\ \/ /\ hd = cur[t]
          /\ hd' = new[t]
          /\ gen' = gen + 1
          /\ pc' = [pc EXCEPT ![t] = "pop_count"]
          /\ UNCHANGED <<cur, obs>>
       \/ /\ cur' = [cur EXCEPT ![t] = hd]
          /\ obs' = [obs EXCEPT ![t] = gen]
          /\ pc' = [pc EXCEPT ![t] = "pop_read"]
          /\ UNCHANGED <<hd, gen>>
    /\ UNCHANGED <<rgn, rgn_len, frame_size, nr_frames, nr_frees, nr_allocs,
                   next, head, new, sn, pframe, held, ret, crashed, calls_ok,
                   calls_nomem, calls_free, last, new_vars, query_vars>>

\* ck_pr_cas_ptr_2_value(&alloc->hd, &cur, &new, &cur) (line 117): both words
\* of hd must equal cur; cur receives the value observed
PopCas(t) ==
    /\ ~crashed /\ pc[t] = "pop_cas"
    /\ IF hd = cur[t]
       THEN /\ hd' = new[t]
            /\ gen' = gen + 1
            /\ pc' = [pc EXCEPT ![t] = "pop_count"]
            /\ UNCHANGED <<cur, obs>>
       ELSE /\ cur' = [cur EXCEPT ![t] = hd]
            /\ obs' = [obs EXCEPT ![t] = gen]
            /\ pc' = [pc EXCEPT ![t] = "pop_read"]
            /\ UNCHANGED <<hd, gen>>
    /\ UNCHANGED <<rgn, rgn_len, frame_size, nr_frames, nr_frees, nr_allocs,
                   next, head, new, sn, pframe, held, ret, crashed, calls_ok,
                   calls_nomem, calls_free, last, new_vars, query_vars>>

\* mutant: the allocation is not counted
PopCount_NoCount(t) ==
    /\ ~crashed /\ pc[t] = "pop_count"
    /\ pframe' = [pframe EXCEPT ![t] = sn[t]]
    /\ held' = [held EXCEPT ![t] = @ \cup {sn[t]}]
    /\ ret' = [ret EXCEPT ![t] = "A_OK"]
    /\ pc' = [pc EXCEPT ![t] = "idle"]
    /\ cur' = [cur EXCEPT ![t] = NoHead]
    /\ new' = [new EXCEPT ![t] = NoHead]
    /\ sn' = [sn EXCEPT ![t] = NULL]
    /\ calls_ok' = calls_ok + 1
    /\ last' = [op |-> "alloc", t |-> t, frame |-> sn[t]]
    /\ UNCHANGED <<alloc_vars, next, head, crashed, calls_nomem, calls_free,
                   gen, obs, new_vars, query_vars>>

\* atomic_fetch_add(&alloc->nr_allocs, 1), *top_free = sn, return A_OK
\* (lines 120-126, 268)
PopCount(t) ==
    /\ ~crashed /\ pc[t] = "pop_count"
    /\ nr_allocs' = (nr_allocs + 1) % WordMod
    /\ pframe' = [pframe EXCEPT ![t] = sn[t]]
    /\ held' = [held EXCEPT ![t] = @ \cup {sn[t]}]
    /\ ret' = [ret EXCEPT ![t] = "A_OK"]
    /\ pc' = [pc EXCEPT ![t] = "idle"]
    /\ cur' = [cur EXCEPT ![t] = NoHead]
    /\ new' = [new EXCEPT ![t] = NoHead]
    /\ sn' = [sn EXCEPT ![t] = NULL]
    /\ calls_ok' = calls_ok + 1
    /\ last' = [op |-> "alloc", t |-> t, frame |-> sn[t]]
    /\ UNCHANGED <<hd, rgn, rgn_len, frame_size, nr_frames, nr_frees, next,
                   head, crashed, calls_nomem, calls_free, gen, obs, new_vars,
                   query_vars>>

(***************************************************************************)
(* frame_free and _frame_alloc_push_free.                                  *)
(***************************************************************************)
\* frame_free entered with a frame the caller holds; new.free = new_top
\* (lines 279, 141-142)
FreeCall(t) ==
    /\ ~crashed /\ pc[t] = "idle" /\ CallsStarted < quota
    /\ \E f \in held[t] :
          /\ pframe' = [pframe EXCEPT ![t] = f]
          /\ held' = [held EXCEPT ![t] = @ \ {f}]
          /\ new' = [new EXCEPT ![t] = HeadRec(f, 0)]
    /\ pc' = [pc EXCEPT ![t] = "push_load"]
    /\ UNCHANGED <<alloc_vars, next, cur, head, sn, ret, crashed, hist_vars,
                   new_vars, query_vars>>

\* mutant: the handle is cleared before the frame is published, when the
\* head is first loaded
PushLoad_Clear(t) ==
    /\ ~crashed /\ pc[t] = "push_load"
    /\ head' = [head EXCEPT ![t] = hd]
    /\ obs' = [obs EXCEPT ![t] = gen]
    /\ pframe' = [pframe EXCEPT ![t] = NULL]
    /\ pc' = [pc EXCEPT ![t] = "push_splice"]
    /\ UNCHANGED <<alloc_vars, next, cur, new, sn, held, ret, crashed,
                   calls_ok, calls_nomem, calls_free, last, gen, new_vars,
                   query_vars>>

\* ck_pr_load_ptr_2(&alloc->hd, &head) (line 144)
PushLoad(t) ==
    /\ ~crashed /\ pc[t] = "push_load"
    /\ head' = [head EXCEPT ![t] = hd]
    /\ obs' = [obs EXCEPT ![t] = gen]
    /\ pc' = [pc EXCEPT ![t] = "push_splice"]
    /\ UNCHANGED <<alloc_vars, next, cur, new, sn, pframe, held, ret, crashed,
                   calls_ok, calls_nomem, calls_free, last, gen, new_vars,
                   query_vars>>

\* mutant: the candidate keeps the counter of the head observed
PushSplice_NoCount(t) ==
    /\ ~crashed /\ pc[t] = "push_splice"
    /\ next' = [next EXCEPT ![new[t].free] = head[t].free]
    /\ new' = [new EXCEPT ![t].counter = head[t].counter]
    /\ pc' = [pc EXCEPT ![t] = "push_cas"]
    /\ UNCHANGED <<alloc_vars, cur, head, sn, pframe, held, ret, crashed,
                   hist_vars, new_vars, query_vars>>

\* the loop body (lines 148-149): phead->next = head.free, the candidate's
\* counter
PushSplice(t) ==
    /\ ~crashed /\ pc[t] = "push_splice"
    /\ next' = [next EXCEPT ![new[t].free] = head[t].free]
    /\ new' = [new EXCEPT ![t].counter = (head[t].counter + 1) % CounterMod]
    /\ pc' = [pc EXCEPT ![t] = "push_cas"]
    /\ UNCHANGED <<alloc_vars, cur, head, sn, pframe, held, ret, crashed,
                   hist_vars, new_vars, query_vars>>

\* mutant: the swap installs the old top again, the pushed frame is lost
PushCas_Lost(t) ==
    /\ ~crashed /\ pc[t] = "push_cas"
    /\ IF hd = head[t]
       THEN /\ hd' = HeadRec(head[t].free, new[t].counter)
            /\ gen' = gen + 1
            /\ pc' = [pc EXCEPT ![t] = "push_count"]
            /\ UNCHANGED <<head, obs>>
       ELSE /\ head' = [head EXCEPT ![t] = hd]
            /\ obs' = [obs EXCEPT ![t] = gen]
            /\ pc' = [pc EXCEPT ![t] = "push_splice"]
            /\ UNCHANGED <<hd, gen>>
    /\ UNCHANGED <<rgn, rgn_len, frame_size, nr_frames, nr_frees, nr_allocs,
                   next, cur, new, sn, pframe, held, ret, crashed, calls_ok,
                   calls_nomem, calls_free, last, new_vars, query_vars>>

\* mutant: after a failed compare-and-swap the next attempt is made without
\* writing the next field again
PushCas_NoResplice(t) ==
    /\ ~crashed /\ pc[t] = "push_cas"
    /\ IF hd = head[t]
       THEN /\ hd' = new[t]
            /\ gen' = gen + 1
            /\ pc' = [pc EXCEPT ![t] = "push_count"]
            /\ UNCHANGED <<head, obs, new>>
       ELSE /\ head' = [head EXCEPT ![t] = hd]
            /\ obs' = [obs EXCEPT ![t] = gen]
            /\ new' = [new EXCEPT
                         ![t].counter = (hd.counter + 1) % CounterMod]
            /\ UNCHANGED <<hd, gen, pc>>
    /\ UNCHANGED <<rgn, rgn_len, frame_size, nr_frames, nr_frees, nr_allocs,
                   next, cur, sn, pframe, held, ret, crashed, calls_ok,
                   calls_nomem, calls_free, last, new_vars, query_vars>>

\* ck_pr_cas_ptr_2_value(&alloc->hd, &head, &new, &head) (line 150)
PushCas(t) ==
    /\ ~crashed /\ pc[t] = "push_cas"
    /\ IF hd = head[t]
       THEN /\ hd' = new[t]
            /\ gen' = gen + 1
            /\ pc' = [pc EXCEPT ![t] = "push_count"]
            /\ UNCHANGED <<head, obs>>
       ELSE /\ head' = [head EXCEPT ![t] = hd]
            /\ obs' = [obs EXCEPT ![t] = gen]
            /\ pc' = [pc EXCEPT ![t] = "push_splice"]
            /\ UNCHANGED <<hd, gen>>
    /\ UNCHANGED <<rgn, rgn_len, frame_size, nr_frames, nr_frees, nr_allocs,
                   next, cur, new, sn, pframe, held, ret, crashed, calls_ok,
                   calls_nomem, calls_free, last, new_vars, query_vars>>

\* atomic_fetch_add(&alloc->nr_frees, 1), return A_OK, *pframe = NULL
\* (lines 153-156, 283-286)
PushCount(t) ==
    /\ ~crashed /\ pc[t] = "push_count"
    /\ nr_frees' = (nr_frees + 1) % WordMod
    /\ last' = [op |-> "free", t |-> t, frame |-> pframe[t]]
    /\ pframe' = [pframe EXCEPT ![t] = NULL]
    /\ ret' = [ret EXCEPT ![t] = "A_OK"]
    /\ pc' = [pc EXCEPT ![t] = "idle"]
    /\ head' = [head EXCEPT ![t] = NoHead]
    /\ new' = [new EXCEPT ![t] = NoHead]
    /\ calls_free' = calls_free + 1
    /\ UNCHANGED <<hd, rgn, rgn_len, frame_size, nr_frames, nr_allocs, next,
                   cur, sn, held, crashed, calls_ok, calls_nomem, gen, obs,
                   new_vars, query_vars>>

\* one step of thread t
Step(t) ==
    \/ CallerWrite(t)
    \/ AllocCall(t)
    \/ PopLoad(t)
    \/ PopRead(t)
    \/ PopCas(t)
    \/ PopCount(t)
    \/ FreeCall(t)
    \/ PushLoad(t)
    \/ PushSplice(t)
    \/ PushCas(t)
    \/ PushCount(t)

Next == \E t \in Threads : Step(t)

\* any number of threads calling frame_alloc and frame_free
Spec == Init /\ [][Next]_vars

\* the same, where the threads keep taking steps: as long as some thread can
\* take a step, some thread does
SpecFair == Spec /\ WF_vars(Next)

\* the same, under fair scheduling: a thread that can take a step
\* eventually takes one
SpecSched == Spec /\ \A t \in Threads : WF_vars(Step(t))

(***************************************************************************)
(* frame_alloc_get_frame_size and frame_alloc_get_counts.                  *)
(***************************************************************************)
\* frame_alloc_get_frame_size (lines 289-299) on the allocator
\* frame_alloc_new handed out: *pframe_bytes = alloc->frame_size
GetFrameSize ==
    /\ npc = "returned" /\ palloc # NULL
    /\ pframe_bytes' = frame_size
    /\ UNCHANGED <<alloc_vars, next, thread_vars, crashed, hist_vars,
                   new_vars, out_counts>>

\* mutant: the query reads the counters and clears them
GetCounts_Reset ==
    /\ npc = "returned" /\ palloc # NULL
    /\ out_counts' = [nr_frees |-> nr_frees, nr_allocs |-> nr_allocs]
    /\ nr_frees' = 0 /\ nr_allocs' = 0
    /\ UNCHANGED <<hd, rgn, rgn_len, frame_size, nr_frames, next,
                   thread_vars, crashed, hist_vars, new_vars, pframe_bytes>>

\* frame_alloc_get_counts (lines 77-91): *nr_frees = alloc->nr_frees,
\* *nr_allocs = alloc->nr_allocs
GetCounts ==
    /\ npc = "returned" /\ palloc # NULL
    /\ out_counts' = [nr_frees |-> nr_frees, nr_allocs |-> nr_allocs]
    /\ UNCHANGED <<alloc_vars, next, thread_vars, crashed, hist_vars,
                   new_vars, pframe_bytes>>

\* one thread calling frame_alloc and frame_free and, between calls, the
\* queries
NextSeq ==
    \/ Step(1)
    \/ pc[1] = "idle" /\ GetFrameSize
    \/ pc[1] = "idle" /\ GetCounts

InitSeq ==
    /\ \E b \in FrameBytesArgs, n \in 1 .. MaxFrames :
          /\ Mappable(RegionSize(n, RoundFrameBytes(b)))
          /\ Constructed(b, n)
    /\ ThreadsIdle
    /\ quota = MaxSeqOps

SpecSeq == InitSeq /\ [][NextSeq]_vars

(***************************************************************************)
(* frame_alloc_new.                                                        *)
(***************************************************************************)
\* frame_alloc_new is entered with frame_bytes > 0, nr_frames > 0 and
\* palloc pointing at a handle of any value
InitNew ==
    /\ ThreadsIdle
    /\ hd = NoHead /\ rgn = NULL /\ rgn_len = 0 /\ frame_size = 0
    /\ nr_frames = 0 /\ nr_frees = 0 /\ nr_allocs = 0
    /\ next = <<>>
    /\ npc = "entry"
    /\ arg_bytes \in 1 .. (WordMod - 1)
    /\ arg_frames \in 1 .. MaxFrames
    /\ frame_bytes = arg_bytes
    /\ fa = NULL /\ map_rgn = MAP_FAILED /\ rgn_size = 0 /\ nret = "A_OK"
    /\ palloc = Junk
    /\ fa_live = FALSE /\ mapped = FALSE /\ new_fail = "none"
    /\ quota = 0

\* the rounding, *palloc = NULL, the minimum size (lines 188-197)
NewRound ==
    /\ npc = "entry"
    /\ frame_bytes' = RoundFrameBytes(frame_bytes)
    /\ palloc' = NULL
    /\ npc' = "tzaalloc"
    /\ UNCHANGED <<alloc_vars, next, thread_vars, crashed, hist_vars,
                   quota, arg_bytes, arg_frames, fa, map_rgn, rgn_size, nret,
                   fa_live, mapped, new_fail, query_vars>>

\* TZAALLOC(fa, SYS_CACHE_LINE_LENGTH) (lines 200-202): a zeroed descriptor,
\* or failure and goto done
NewDescriptor ==
    /\ npc = "tzaalloc"
    /\ \E ok \in BOOLEAN :
          IF ok
          THEN /\ fa' = FaAddr /\ fa_live' = TRUE /\ nret' = "A_OK"
               /\ npc' = "mmap"
               /\ UNCHANGED new_fail
          ELSE /\ fa' = NULL /\ nret' = "A_E_NOMEM"
               /\ npc' = "done" /\ new_fail' = "descriptor"
               /\ UNCHANGED fa_live
    /\ UNCHANGED <<alloc_vars, next, thread_vars, crashed, hist_vars,
                   quota, arg_bytes, arg_frames, frame_bytes, map_rgn, rgn_size,
                   palloc, mapped, query_vars>>

\* rgn_size and mmap (lines 204-211): a zero-filled region, or MAP_FAILED and
\* goto done with ret as it is
NewMap ==
    /\ npc = "mmap"
    /\ rgn_size' = RegionSize(arg_frames, frame_bytes)
    /\ \E ok \in BOOLEAN :
          IF ok /\ Mappable(rgn_size')
          THEN /\ map_rgn' = RgnBase /\ mapped' = TRUE
               /\ next' = [a \in FrameAddrs(RgnBase, rgn_size', frame_bytes)
                             |-> NULL]
               /\ npc' = "init"
               /\ UNCHANGED new_fail
          ELSE /\ map_rgn' = MAP_FAILED
               /\ npc' = "done" /\ new_fail' = "mapping"
               /\ UNCHANGED <<mapped, next>>
    /\ UNCHANGED <<alloc_vars, thread_vars, crashed, hist_vars, quota, arg_bytes,
                   arg_frames, frame_bytes, fa, nret, palloc, fa_live,
                   query_vars>>

\* the descriptor's fields, _frame_alloc_init, *palloc = fa (lines 213-220)
NewInit ==
    /\ npc = "init"
    /\ rgn' = map_rgn /\ rgn_len' = rgn_size /\ frame_size' = frame_bytes
    /\ nr_frames' = arg_frames
    /\ LET lst == FrameAllocInit(map_rgn, rgn_size, frame_bytes)
       IN  /\ hd' = [hd EXCEPT !.free = lst.free]
           /\ next' = lst.next
    /\ palloc' = fa
    /\ npc' = "done"
    /\ UNCHANGED <<nr_frees, nr_allocs, thread_vars, crashed, hist_vars,
                   quota, arg_bytes, arg_frames, frame_bytes, fa, map_rgn, rgn_size,
                   nret, fa_live, mapped, new_fail, query_vars>>

\* the label done (lines 222-232): on a failed ret the descriptor is freed
\* and the region, if mapped, unmapped; then the return
NewDone ==
    /\ npc = "done"
    /\ IF nret # "A_OK"
       THEN /\ fa' = NULL
            /\ fa_live' = FALSE
            /\ IF map_rgn # MAP_FAILED
               THEN /\ mapped' = FALSE /\ map_rgn' = MAP_FAILED
                    /\ rgn_size' = 0
               ELSE UNCHANGED <<mapped, map_rgn, rgn_size>>
       ELSE UNCHANGED <<fa, fa_live, mapped, map_rgn, rgn_size>>
    /\ npc' = "returned"
    /\ UNCHANGED <<alloc_vars, next, thread_vars, crashed, hist_vars,
                   quota, arg_bytes, arg_frames, frame_bytes, nret, palloc, new_fail,
                   query_vars>>

NextNew ==
    \/ NewRound
    \/ NewDescriptor
    \/ NewMap
    \/ NewInit
    \/ NewDone
    \/ GetFrameSize

\* construction for every frame_bytes and nr_frames of the bounds
SpecNew == InitNew /\ [][NextNew]_vars

(***************************************************************************)
(* Properties.                                                             *)
(***************************************************************************)
PushPcs == {"push_load", "push_splice", "push_cas"}

\* the frames a successful frame_alloc returned to t that no frame_free has
\* pushed back yet
Holding(t) ==
    held[t] \cup (IF pc[t] \in PushPcs THEN {pframe[t]} ELSE {})

\* the frame t's compare-and-swap has popped and frame_alloc is about to
\* return
Popped(t) == IF pc[t] = "pop_count" THEN {sn[t]} ELSE {}

Owned(t) == Holding(t) \cup Popped(t)

RECURSIVE Chain(_, _)
\* the frames met from p along the next fields, in at most fuel steps
Chain(p, fuel) ==
    IF p \notin Frames \/ fuel = 0 THEN <<>>
    ELSE <<p>> \o Chain(next[p], fuel - 1)

RECURSIVE ChainEnd(_, _)
\* where that walk stops
ChainEnd(p, fuel) ==
    IF p \notin Frames \/ fuel = 0 THEN p ELSE ChainEnd(next[p], fuel - 1)

FreeList == Chain(hd.free, Cardinality(Frames))

FreeCount(f) == Cardinality({i \in 1 .. Len(FreeList) : FreeList[i] = f})

OwnerCount(f) == Cardinality({t \in Threads : f \in Owned(t)})

Quiescent == \A t \in Threads : pc[t] = "idle" /\ held[t] = {}

Min(a, b) == IF a < b THEN a ELSE b

\* C1: no frame is held by two callers at once: a frame a frame_alloc has
\* popped or returned is not popped or returned by another frame_alloc, in
\* the same or another thread, before a frame_free has pushed it back.
C1_NoDuplication ==
    /\ \A t, u \in Threads : t # u => Owned(t) \cap Owned(u) = {}
    /\ \A t \in Threads : Holding(t) \cap Popped(t) = {}

\* two threads hold a frame each after a frame has been freed and reused
C1_Witness ==
    /\ calls_free > 0
    /\ \E t, u \in Threads : t # u /\ held[t] # {} /\ held[u] # {}

\* C2: every frame is either on the free list exactly once, the list being
\* acyclic and ending at NULL, or held by exactly one caller and not on the
\* list; the free frames and the held frames together number nr_frames.
C2_Partition ==
    /\ Cardinality(Frames) = nr_frames
    /\ ChainEnd(hd.free, Cardinality(Frames)) = NULL
    /\ \A f \in Frames : FreeCount(f) + OwnerCount(f) = 1
    /\ Len(FreeList)
         + Cardinality({x \in Threads \X Frames : x[2] \in Owned(x[1])})
       = nr_frames

\* C3: frame_alloc never computes a candidate head from a NULL free pointer:
\* whenever it is about to read cur.free->next, after the first load or after
\* a failed compare-and-swap, cur.free is not NULL.
C3_NoNullCandidate ==
    \A t \in Threads : pc[t] = "pop_read" => cur[t].free # NULL

\* C4: a compare-and-swap of a pop or a push succeeds only if no head update
\* has succeeded since the thread observed the head value it compares with.
C4_AbaProtected ==
    [][\A t \in Threads :
          (\/ pc[t] = "pop_cas" /\ pc'[t] = "pop_count"
           \/ pc[t] = "push_cas" /\ pc'[t] = "push_count")
          => obs[t] = gen]_vars

\* a pop is about to compare-and-swap with a stale candidate while hd.free
\* is again the frame it observed: others have popped it and pushed it back
C4_Witness ==
    \E t \in Threads :
       /\ pc[t] = "pop_cas"
       /\ hd.free = cur[t].free
       /\ obs[t] + 2 <= gen
       /\ next[hd.free] # new[t].free

\* C5: in a single thread with no frame_free, the first nr_frames calls of
\* frame_alloc succeed with pairwise distinct frames and every later call
\* fails with A_E_NOMEM.
C5_Capacity ==
    (/\ calls_free = 0
     /\ \A t \in Threads : pc[t] \notin PushPcs \cup {"push_count"})
    => /\ calls_ok = Min(calls_ok + calls_nomem, nr_frames)
       /\ Cardinality(UNION {held[t] : t \in Threads}) = calls_ok

\* C6 as claimed: nr_allocs - nr_frees is never negative and never exceeds
\* nr_frames, in every reachable state.
C6_Conservation ==
    /\ nr_allocs - nr_frees >= 0
    /\ nr_allocs - nr_frees <= nr_frames

\* C6 as amended: nr_allocs - nr_frees is never negative, and never exceeds
\* nr_frames plus the number of frame_free calls that have completed their
\* compare-and-swap and not yet incremented nr_frees.
C6_ConservationAmended ==
    /\ nr_allocs - nr_frees >= 0
    /\ nr_allocs - nr_frees
         <= nr_frames + Cardinality({t \in Threads : pc[t] = "push_count"})

\* a freed frame has been allocated again and counted before its free was
\* counted
C6_Witness ==
    /\ \E t \in Threads : pc[t] = "push_count"
    /\ nr_allocs - nr_frees = nr_frames + 1

\* C7: on an allocator of one frame every call runs to completion, and once
\* all calls have returned and every frame obtained has been freed, the free
\* list holds the frame and nr_allocs = nr_frees.
C7_SingleFrameStress ==
    nr_frames = 1
    => /\ ~crashed
       /\ Quiescent => (hd.free \in Frames /\ nr_allocs = nr_frees)

\* C8: when frame_alloc_new has returned after mmap failed, the result is an
\* error, the descriptor has been released, *palloc is NULL and nothing is
\* mapped; after the descriptor could not be acquired, the result is an error
\* and nothing is mapped.
C8_FailurePath ==
    npc = "returned"
    => /\ new_fail = "mapping"
          => (nret # "A_OK" /\ ~fa_live /\ palloc = NULL /\ ~mapped)
       /\ new_fail = "descriptor" => (nret # "A_OK" /\ ~mapped)

\* C9: after a successful frame_alloc_new, frame_alloc_get_frame_size
\* reports a multiple of the cache-line size that is at least the requested
\* frame_bytes and at least the size of a free-list node.
C9_Alignment ==
    (npc = "returned" /\ nret = "A_OK" /\ palloc # NULL /\ pframe_bytes # 0)
    => /\ pframe_bytes % SYS_CACHE_LINE_LENGTH = 0
       /\ pframe_bytes >= arg_bytes
       /\ pframe_bytes >= NodeSize

\* C10: in a single thread, the frame_alloc that follows frame_free(f)
\* succeeds and returns f, and a frame_alloc called while the caller holds
\* all nr_frames frames fails with A_E_NOMEM.
C10_RoundTrip ==
    [][/\ (last.op = "free" /\ last'.op \in {"alloc", "alloc_nomem"})
           => (last'.op = "alloc" /\ last'.frame = last.frame)
       /\ \A t \in Threads :
             (pc[t] = "pop_load" /\ Cardinality(held[t]) = nr_frames)
             => (pc'[t] = "idle" /\ ret'[t] = "A_E_NOMEM")]_vars

\* all frames were allocated, one was freed and allocated again, and the
\* call after that failed
C10_Witness ==
    /\ nr_frames = MaxFrames
    /\ calls_free = 1 /\ calls_ok = nr_frames + 1 /\ calls_nomem = 1
    /\ last.op = "alloc_nomem"

\* a call of frame_alloc or frame_free is in flight
InFlight == \E t \in Threads : pc[t] # "idle"

\* the number of calls that have returned
Completed == calls_ok + calls_nomem + calls_free

C12_FreeTerminates ==
    /\ [][\A t \in Threads :
            (pc[t] \in PushPcs \cup {"push_count"} /\ pc'[t] = "idle")
            => (pc[t] = "push_count" /\ ret'[t] = "A_OK")]_vars
    /\ [][\A t \in Threads :
            (pc[t] # "push_count" /\ pc'[t] = "push_count")
            => (pc[t] = "push_cas" /\ hd'.free = pframe[t])]_vars
    /\ \A t \in Threads : (pc[t] \in PushPcs) ~> (pc[t] = "idle")

\* the frames successful calls of frame_alloc have handed to callers and no
\* caller has passed to frame_free since
HandedOut == UNION {held[t] : t \in Threads}

\* C13: no allocator operation reads or writes the bytes of a frame a caller
\* holds: the frame whose next field a pop is about to read (line 115), and
\* the frame whose next field a push is about to write (line 148), is not
\* one that has been handed to a caller and not yet passed to frame_free.
C13_CallerOwnership ==
    \A t \in Threads :
       /\ pc[t] = "pop_read" => cur[t].free \notin HandedOut
       /\ pc[t] = "push_splice" => new[t].free \notin HandedOut

\* thread t's compare-and-swap succeeds in this step
CasSucceeds(t) ==
    \/ pc[t] = "pop_cas" /\ pc'[t] = "pop_count"
    \/ pc[t] = "push_cas" /\ pc'[t] = "push_count"

\* C14: a successful compare-and-swap of a pop or a push replaces hd by the
\* thread's candidate, whose counter is the previous counter plus one modulo
\* the counter's width; no other step of frame_alloc or frame_free changes
\* hd; and hd.counter is the number of successful compare-and-swaps since
\* construction, modulo the counter's width.
C14_GenerationCounter ==
    [][/\ \A t \in Threads :
             CasSucceeds(t)
             => /\ hd' = new[t]
                /\ hd'.counter = (hd.counter + 1) % CounterMod
       /\ (~ \E t \in Threads : CasSucceeds(t)) => hd' = hd
       /\ hd.counter = gen % CounterMod
       /\ hd'.counter = gen' % CounterMod]_vars

\* a push and two pops have succeeded and a compare-and-swap is about to
\* fail
C14_Witness ==
    /\ hd.counter = 3 /\ calls_free = 1
    /\ \E t \in Threads :
          pc[t] = "pop_cas" /\ cur[t] # hd /\ cur[t].counter = 0

\* frame_alloc_new has returned an allocator
NewSucceeded == npc = "returned" /\ nret = "A_OK" /\ palloc # NULL

\* C15: when frame_alloc_new has returned an allocator, the free list is the
\* nr_frames frames rgn + i * frame_size, from the highest address down to
\* rgn, each once, and ends at NULL; hd.counter, nr_allocs and nr_frees are 0.
C15_InitialList ==
    NewSucceeded
    => /\ FreeList = [i \in 1 .. nr_frames |->
                        rgn + (nr_frames - i) * frame_size]
       /\ ChainEnd(hd.free, Cardinality(Frames)) = NULL
       /\ hd.counter = 0 /\ nr_allocs = 0 /\ nr_frees = 0

\* C16: whenever a push is about to compare-and-swap, the next field of the
\* frame it pushes is the free pointer of the head it last observed; so
\* when the compare-and-swap succeeds that field is the free pointer of the
\* head replaced, and the free list after the step is the pushed frame
\* followed by the free list before the step.
C16_PushSplice ==
    [][\A t \in Threads :
          /\ pc[t] = "push_cas" => next[new[t].free] = head[t].free
          /\ (pc[t] = "push_cas" /\ pc'[t] = "push_count")
             => /\ next[new[t].free] = hd.free
                /\ FreeList' = <<new[t].free>> \o FreeList]_vars

\* a push is about to succeed on a list that is not empty, after three
\* other head updates
C16_Witness ==
    \E t \in Threads :
       /\ pc[t] = "push_cas" /\ head[t] = hd
       /\ hd.free \in Frames /\ hd.counter >= 3

\* thread t's frame_alloc returns A_E_NOMEM in this step
ReturnsNoMem(t) ==
    pc[t] # "idle" /\ pc'[t] = "idle" /\ ret'[t] = "A_E_NOMEM"

\* C17: a frame_alloc that returns A_E_NOMEM consists of its entry, which
\* sets *pframe to NULL, and one load of the head, with no retry; neither
\* step changes hd, the next field of any frame, nr_allocs, nr_frees or
\* another field of the descriptor, and *pframe is NULL at the return.
C17_ExhaustionNoEffect ==
    [][\A t \in Threads :
          /\ (pc[t] = "idle" /\ pc'[t] = "pop_load")
             => (pframe'[t] = NULL /\ UNCHANGED <<alloc_vars, next>>)
          /\ ReturnsNoMem(t)
             => /\ pc[t] = "pop_load"
                /\ hd.free = NULL
                /\ pframe'[t] = NULL
                /\ UNCHANGED <<alloc_vars, next, held>>]_vars

\* a frame_alloc has returned A_E_NOMEM while every frame is held, and
\* *pframe is NULL
C17_Witness ==
    /\ last.op = "alloc_nomem"
    /\ pc[last.t] = "idle" /\ pframe[last.t] = NULL
    /\ HandedOut = Frames

\* C18: in a state where no call of frame_alloc or frame_free is in flight,
\* nr_allocs is the number of frame_alloc calls that have returned A_OK and
\* nr_frees the number of frame_free calls that have returned; their
\* difference is the number of frames callers hold, and nr_frames minus that
\* difference is the length of the free list.
C18_QuiescentCounts ==
    ~InFlight
    => /\ nr_allocs = calls_ok
       /\ nr_frees = calls_free
       /\ nr_allocs - nr_frees = Cardinality(HandedOut)
       /\ nr_frames - (nr_allocs - nr_frees) = Len(FreeList)

\* p is the address of a frame: inside the backing region, at an offset
\* that is a multiple of frame_size
FrameAddress(p) ==
    /\ p # NULL
    /\ rgn <= p /\ p < rgn + rgn_len
    /\ (p - rgn) % frame_size = 0

\* C19: frame_free sets *pframe to NULL, and only in the step after its
\* compare-and-swap has succeeded: until then the handle is the frame
\* passed; a frame_alloc that returns A_OK has set *pframe to the address
\* of a frame.
C19_HandleClearing ==
    [][\A t \in Threads :
          /\ pc[t] \in PushPcs => pframe[t] = new[t].free /\ pframe[t] # NULL
          /\ (pc[t] \in PushPcs \cup {"push_count"} /\ pframe'[t] # pframe[t])
             => (pc[t] = "push_count" /\ pframe'[t] = NULL)
          /\ (pc[t] = "push_count" /\ pc'[t] = "idle")
             => (pframe'[t] = NULL /\ ret'[t] = "A_OK")
          /\ (pc[t] = "pop_count" /\ pc'[t] = "idle")
             => (ret'[t] = "A_OK" /\ FrameAddress(pframe'[t]))]_vars

\* a frame_free has returned and cleared the handle while the frame it
\* published has already been popped by another thread
C19_Witness ==
    /\ last.op = "free" /\ pframe[last.t] = NULL /\ pc[last.t] = "idle"
    /\ \E u \in Threads : u # last.t /\ last.frame \in Owned(u)

\* C20: no step of frame_alloc, frame_free, frame_alloc_get_frame_size or
\* frame_alloc_get_counts changes rgn, rgn_len, frame_size or nr_frames; a
\* step of a query (it writes an output and leaves every thread where it
\* is) changes no field of the descriptor and no frame; and once
\* frame_alloc_get_frame_size has reported a size it reports that size again.
C20_MetadataImmutable ==
    [][/\ UNCHANGED <<rgn, rgn_len, frame_size, nr_frames>>
       /\ pc' = pc => UNCHANGED alloc_vars
       /\ (pframe_bytes' # pframe_bytes \/ out_counts' # out_counts)
          => UNCHANGED <<alloc_vars, next, thread_vars>>
       /\ pframe_bytes' # pframe_bytes
          => (pframe_bytes = 0 /\ pframe_bytes' = frame_size)]_vars

\* both queries have been answered after calls of frame_alloc and
\* frame_free, and further calls have been made since
C20_Witness ==
    /\ pframe_bytes = frame_size
    /\ out_counts.nr_allocs >= 2 /\ out_counts.nr_frees >= 1
    /\ calls_ok > out_counts.nr_allocs

====
